---- MODULE Spec2Model ----
(***************************************************************************)
(* A model of honolulu_abstract.py: the Markdown section splitter and word *)
(* counter (word_count), the figure extractor (find_figures) and the       *)
(* constraint checks of the orchestrator (honolulu), the report generator  *)
(* (gen_report), the rebuild decision (check_redo) and a whole run of      *)
(* honolulu with its external tools and the files it reads and writes.     *)
(*                                                                         *)
(* A Python str is modelled as a sequence of one-character strings, so     *)
(* that startswith, len, slicing, `in`, split and strip are computed on    *)
(* the characters.  A document is the sequence of its lines.               *)
(***************************************************************************)
EXTENDS Integers, Sequences, FiniteSets, TLC

VARIABLES
    entry,                \* the function that was called: its name
    pc,                   \* position in the running function
    doc,                  \* the decoded input file, as splitlines() gives it
    skip_sections,        \* word_count's skip_sections argument
    limits,               \* honolulu's limits argument
    pos,                  \* index of the next item of the loop being run
    blocks,               \* word_count: blocks
    lines,                \* word_count: lines (the body accumulator)
    len_last_line,        \* word_count: len_last_line
    wc_partial,           \* word_count: wc_partial (honolulu: num_words_total)
    wc_total,             \* word_count: wc_total (honolulu: num_words_full)
    figs,                 \* find_figures: figs
    fig_refs,             \* find_figures: fig_refs, a dict as a function
    tests,                \* honolulu: tests
    attaches,             \* honolulu: attaches
    num_figure_captions,  \* honolulu: num_figure_captions
    file_size,            \* the file system as observed so far: path -> size
    args,                 \* the other arguments of the function called
    ret,                  \* the value the function called has returned
    files,                \* the file system as observed so far: path -> mtime
    trace,                \* messages, process starts and file writes, in order
    outputs               \* what was written or piped: name -> contents

vars == <<entry, pc, doc, skip_sections, limits, pos, blocks, lines,
          len_last_line, wc_partial, wc_total, figs, fig_refs, tests,
          attaches, num_figure_captions, file_size, args, ret, files, trace,
          outputs>>

\* the state outside of the parsing and the checks
io == <<args, ret, files, trace, outputs>>

-----------------------------------------------------------------------------
(* Bounds of the model *)

MaxLines == 3

-----------------------------------------------------------------------------
(* str operations *)

Max(S) == CHOOSE x \in S : \A y \in S : y <= x

Whitespace == {" ", "\t"}

Digits == {"0", "1", "2", "3", "4", "5", "6", "7", "8", "9"}

\* s.startswith(t)
StartsWith(s, t) == Len(s) >= Len(t) /\ SubSeq(s, 1, Len(t)) = t

\* s[n:]
DropPrefix(s, n) == SubSeq(s, n + 1, Len(s))

\* t in s, for strings
Contains(s, t) ==
    \E i \in 0..(Len(s) - Len(t)) : SubSeq(s, i + 1, i + Len(t)) = t

\* ' '.join(text)
RECURSIVE Join(_)
Join(text) ==
    IF text = <<>> THEN <<>>
    ELSE IF Len(text) = 1 THEN text[1]
    ELSE text[1] \o <<" ">> \o Join(Tail(text))

\* len(s.split()): the number of maximal runs of non-whitespace characters
LenSplit(s) ==
    Cardinality({i \in 1..Len(s) :
        /\ s[i] \notin Whitespace
        /\ (i = 1 \/ s[i - 1] \in Whitespace)})

\* s.strip()
Strip(s) ==
    LET keep == {i \in 1..Len(s) : s[i] \notin Whitespace}
    IN  IF keep = {} THEN <<>>
        ELSE SubSeq(s, CHOOSE i \in keep : \A j \in keep : i <= j, Max(keep))

-----------------------------------------------------------------------------
(* Module constants *)

D_SKIP_TOKENS == << <<"#">>, <<"!">>, <<"[">> >>

\* tuple('#' * (n + 1) + ' ' for n in range(6)); Python index i is k - 1
D_HDR_TOKENS == [k \in 1..6 |-> [j \in 1..(k + 1) |-> IF j <= k THEN "#" ELSE " "]]

D_HDR_TOKENS_NL == << <<"=", "=">>, <<"-", "-">> >>

D_SKIP_SECTIONS == <<
    <<"A", "u", "t", "h", "o", "r", "s">>,
    <<"S", "y", "n", "o", "p", "s", "i", "s">>,
    <<"R", "e", "f", "e", "r", "e", "n", "c", "e", "s">>,
    <<"A", "c", "k", "n", "o", "w", "l", "e", "d", "g", "e", "m", "e", "n", "t", "s">>,
    <<"F", "i", "g", "u", "r", "e">>,
    <<"T", "a", "b", "l", "e">> >>

D_LIMITS ==
    [wc_tot |-> 750, wc_synopsis |-> 100, wc_fig |-> 100, n_figs |-> 5,
     fig_size |-> 2000000]

-----------------------------------------------------------------------------
(* Inputs *)

\* Lines for word_count: blank, body (one and two words), underlines,
\* ATX headings (plain, skip sections), a skipped comment-like line.
WcPool == {
    <<>>,
    <<"a", "b">>,
    <<"a", " ", "b">>,
    <<"=", "=">>,
    <<"-", "-">>,
    <<"-", "-", "-">>,
    <<"#", " ", "T">>,
    <<"#", "#", " ", "F", "i", "g", "u", "r", "e", " ", "1">>,
    <<"#", " ", "S", "y", "n", "o", "p", "s", "i", "s">>,
    <<"#", "x">> }

\* word_count's default skip_sections is (); honolulu passes D_SKIP_SECTIONS
SkipSectionsPool == { <<>>, D_SKIP_SECTIONS, << <<"T">> >> }

Docs(pool) == UNION {[1..n -> pool] : n \in 0..MaxLines}

\* Longer documents: sections with bodies (a skip section, a plain one, a
\* figure caption), a body before the first heading, an underline right
\* after an ATX heading.
WcExampleDocs == {
    << <<"#", " ", "S", "y", "n", "o", "p", "s", "i", "s">>, <<"a", "b">>,
       <<"#", " ", "T">>, <<"a", " ", "b">>,
       <<"#", "#", " ", "F", "i", "g", "u", "r", "e", " ", "1">>, <<"a", "b">> >>,
    << <<"a", " ", "b">>, <<"a", "b">>, <<"-", "-">>, <<"a", "b">>,
       <<"#", " ", "T">>, <<"a", " ", "b">> >>,
    << <<"#", " ", "T">>, <<"a", "b">>, <<"#", " ", "T">>, <<"-", "-">> >> }

-----------------------------------------------------------------------------
(* word_count *)

\* lines 564-570: the loop over hdr_tokens, from token k on
RECURSIVE AtxLoop(_, _, _, _)
AtxLoop(line, k, bl, ls) ==
    IF k > Len(D_HDR_TOKENS) THEN [blocks |-> bl, lines |-> ls]
    ELSE IF StartsWith(line, D_HDR_TOKENS[k])
    THEN LET closed == IF Len(bl) > 0
                       THEN [bl EXCEPT ![Len(bl)].text = ls]
                       ELSE bl
             rest   == IF Len(bl) > 0 THEN <<>> ELSE ls
             opened == [title |-> DropPrefix(line, Len(D_HDR_TOKENS[k])),
                        text |-> <<>>, level |-> k - 1]
         IN  AtxLoop(line, k + 1, Append(closed, opened), rest)
    ELSE AtxLoop(line, k + 1, bl, ls)

\* lines 571-574
SkipLine(line) ==
    \E k \in 1..Len(D_SKIP_TOKENS) : StartsWith(line, D_SKIP_TOKENS[k])

\* WasTitle without the comparison of the lengths
WasTitle_AnyLength(line, last) ==
    \E k \in 1..Len(D_HDR_TOKENS_NL) : StartsWith(line, D_HDR_TOKENS_NL[k])

\* lines 577-580
WasTitle(line, last) ==
    \E k \in 1..Len(D_HDR_TOKENS_NL) :
        Len(line) = last /\ StartsWith(line, D_HDR_TOKENS_NL[k])

\* line 586: i is the loop variable of line 578 after the loop has run to its
\* end (the loop has no break), whichever token matched
SetextLevel(line) == Len(D_HDR_TOKENS_NL) - 1

\* SetextOpen reading the title without popping it
SetextOpen_KeepTitle(line, bl, ls) ==
    LET title  == ls[Len(ls)]
        closed == IF Len(bl) > 0
                  THEN [bl EXCEPT ![Len(bl)].text = ls]
                  ELSE bl
        rest   == IF Len(bl) > 0 THEN <<>> ELSE ls
        opened == [title |-> title, text |-> <<>>, level |-> SetextLevel(line)]
    IN  [blocks |-> Append(closed, opened), lines |-> rest]

\* lines 582-586, when lines is not empty
SetextOpen(line, bl, ls) ==
    LET title  == ls[Len(ls)]
        popped == SubSeq(ls, 1, Len(ls) - 1)
        closed == IF Len(bl) > 0
                  THEN [bl EXCEPT ![Len(bl)].text = popped]
                  ELSE bl
        rest   == IF Len(bl) > 0 THEN <<>> ELSE popped
        opened == [title |-> title, text |-> <<>>, level |-> SetextLevel(line)]
    IN  [blocks |-> Append(closed, opened), lines |-> rest]

\* lines 587-589
BodyAppend(line, ls) == IF Len(line) > 0 THEN Append(ls, line) ELSE ls

\* lines 591-592
Flush(bl, ls) ==
    IF Len(bl) > 0 THEN [bl EXCEPT ![Len(bl)].text = ls] ELSE bl

\* lines 598-603
SkipFlag(title, sections) ==
    \E k \in 1..Len(sections) : Contains(title, sections[k])

\* line 597
NumWords(text) == LenSplit(Join(text))

\* lines 596-603: the block with num_words and skip attached
Counted(block, sections) ==
    [title |-> block.title, text |-> block.text, level |-> block.level,
     num_words |-> NumWords(block.text),
     skip |-> SkipFlag(block.title, sections)]

\* Totals adding every block to the partial total
RECURSIVE Totals_SkipIgnored(_, _, _, _)
Totals_SkipIgnored(bl, k, partial, total) ==
    IF k > Len(bl) THEN [wc_partial |-> partial, wc_total |-> total]
    ELSE Totals_SkipIgnored(bl, k + 1, partial + bl[k].num_words,
                            total + bl[k].num_words)

\* lines 594-605: the totals, accumulated block by block
RECURSIVE Totals(_, _, _, _)
Totals(bl, k, partial, total) ==
    IF k > Len(bl) THEN [wc_partial |-> partial, wc_total |-> total]
    ELSE Totals(bl, k + 1,
                partial + (IF ~bl[k].skip THEN bl[k].num_words ELSE 0),
                total + bl[k].num_words)

\* One iteration of the loop of line 563.
WcLine ==
    /\ pc = "word_count"
    /\ pos <= Len(doc)
    /\ LET line == doc[pos]
           atx  == AtxLoop(line, 1, blocks, lines)
       IN  IF SkipLine(line)
           THEN \* line 576: continue, len_last_line is not assigned
                /\ blocks' = atx.blocks
                /\ lines' = atx.lines
                /\ pos' = pos + 1
                /\ UNCHANGED <<pc, len_last_line>>
           ELSE IF WasTitle(line, len_last_line)
           THEN IF atx.lines = <<>>
                THEN \* line 582: pop from an empty list raises IndexError
                     /\ pc' = "raised"
                     /\ blocks' = atx.blocks
                     /\ lines' = atx.lines
                     /\ UNCHANGED <<pos, len_last_line>>
                ELSE LET opened == SetextOpen(line, atx.blocks, atx.lines)
                     IN  /\ blocks' = opened.blocks
                         /\ lines' = opened.lines
                         /\ len_last_line' = Len(line)
                         /\ pos' = pos + 1
                         /\ UNCHANGED pc
           ELSE /\ blocks' = atx.blocks
                /\ lines' = BodyAppend(line, atx.lines)
                /\ len_last_line' = Len(line)
                /\ pos' = pos + 1
                /\ UNCHANGED pc
    /\ UNCHANGED <<entry, doc, skip_sections, limits, wc_partial, wc_total,
                   figs, fig_refs, tests, attaches, num_figure_captions,
                   file_size>>
    /\ UNCHANGED io

\* The end of the loop, the final flush, the counting loop and the return.
WcReturn ==
    /\ pc = "word_count"
    /\ pos > Len(doc)
    /\ LET flushed == Flush(blocks, lines)
           counted == [k \in 1..Len(flushed) |-> Counted(flushed[k], skip_sections)]
           totals  == Totals(counted, 1, 0, 0)
       IN  /\ blocks' = counted
           /\ wc_partial' = totals.wc_partial
           /\ wc_total' = totals.wc_total
    /\ pc' = IF entry = "honolulu" THEN "test_total" ELSE "returned"
    /\ pos' = 1
    /\ UNCHANGED <<entry, doc, skip_sections, limits, lines, len_last_line,
                   figs, fig_refs, tests, attaches, num_figure_captions,
                   file_size>>
    /\ UNCHANGED io

\* word_count called on a document
InitWordCount ==
    /\ entry = "word_count"
    /\ pc = "word_count"
    /\ doc \in Docs(WcPool) \cup WcExampleDocs
    /\ skip_sections \in SkipSectionsPool
    /\ limits = D_LIMITS
    /\ pos = 1
    /\ blocks = <<>>
    /\ lines = <<>>
    /\ len_last_line = 0
    /\ wc_partial = 0
    /\ wc_total = 0
    /\ figs = <<>>
    /\ fig_refs = <<>>
    /\ tests = <<>>
    /\ attaches = <<>>
    /\ num_figure_captions = 0
    /\ file_size = <<>>
    /\ args = <<>>
    /\ ret = "None"
    /\ files = <<>>
    /\ trace = <<>>
    /\ outputs = <<>>

NextWordCount == WcLine \/ WcReturn

SpecWordCount == InitWordCount /\ [][NextWordCount]_vars

-----------------------------------------------------------------------------
(* find_figures *)

\* Lines for find_figures: inline images (one whose uri is a label, one with
\* two "](" in it, one not at the start of the line), referenced images
\* (labels 1 and 2, and mismatched labels), definitions of label 1, a body.
FigPool == {
    <<"a", "b">>,
    <<"!", "[", "a", "]", "(", "f", ")">>,
    <<"!", "[", "a", "]", "(", "1", ")">>,
    <<"!", "[", "a", "]", "(", "b", ")", "]", "(", "c", ")">>,
    <<"x", "!", "[", "a", "]", "(", "f", ")">>,
    <<"[", "!", "[", "a", "]", "[", "1", "]", "]", "[", "1", "]">>,
    <<"[", "!", "[", "a", "]", "[", "2", "]", "]", "[", "2", "]">>,
    <<"[", "!", "[", "a", "]", "[", "1", "]", "]", "[", "2", "]">>,
    <<"[", "1", "]", ":", " ", "g", " ">>,
    <<"[", "1", "]", ":", "f">> }

\* Each match is <<>> (no match) or the one-element sequence of its group(s).
\* re.match anchors every pattern at the start of the line, with or without
\* the '^' of on_new_lines.

\* line 630: \[!\[.*\]\[(?P<ref>[0-9]+)\]\]\[(?P=ref)\]
\* i is the place of the "]" that ends the greedy .*, d the last digit of ref
MatchRef(line) ==
    LET n == Len(line)
        ok(i, d) ==
            /\ line[i] = "]" /\ line[i + 1] = "["
            /\ \A j \in (i + 2)..d : line[j] \in Digits
            /\ line[d + 1] = "]" /\ line[d + 2] = "]" /\ line[d + 3] = "["
            /\ d + 4 + (d - i - 1) <= n
            /\ SubSeq(line, d + 4, d + 3 + (d - i - 1)) = SubSeq(line, i + 2, d)
            /\ line[d + 4 + (d - i - 1)] = "]"
        I == {i \in 4..n : \E d \in (i + 2)..(n - 3) : ok(i, d)}
    IN  IF n >= 3 /\ SubSeq(line, 1, 3) = <<"[", "!", "[">> /\ I # {}
        THEN LET i == Max(I)
                 d == CHOOSE x \in (i + 2)..(n - 3) : ok(i, x)
             IN  << SubSeq(line, i + 2, d) >>
        ELSE <<>>

\* line 629: \[(?P<ref>[0-9]+)\]:(?P<uri>.*)
MatchRefUri(line) ==
    LET n == Len(line)
        D == {d \in 2..(n - 2) :
                /\ \A j \in 2..d : line[j] \in Digits
                /\ line[d + 1] = "]" /\ line[d + 2] = ":"}
    IN  IF n >= 1 /\ line[1] = "[" /\ D # {}
        THEN LET d == Max(D)
             IN  << [ref |-> SubSeq(line, 2, d), uri |-> SubSeq(line, d + 3, n)] >>
        ELSE <<>>

\* line 632: !\[.*\]\((?P<uri>.*)\)
\* i is the place of the "]" that ends the greedy .*, j of the last ")"
MatchUri(line) ==
    LET n == Len(line)
        I == {i \in 3..(n - 1) :
                /\ line[i] = "]" /\ line[i + 1] = "("
                /\ \E j \in (i + 2)..n : line[j] = ")"}
    IN  IF n >= 2 /\ line[1] = "!" /\ line[2] = "[" /\ I # {}
        THEN LET i == Max(I)
                 j == Max({x \in (i + 2)..n : line[x] = ")"})
             IN  << SubSeq(line, i + 2, j - 1) >>
        ELSE <<>>

\* fig_refs[ref] = uri
DictSet(dict, key, value) ==
    [x \in (DOMAIN dict) \cup {key} |-> IF x = key THEN value ELSE dict[x]]

\* ScanLine with a definition line also emitting its uri
ScanLine_DefEmits(line, fs, refs) ==
    LET re_ref     == MatchRef(line)
        re_ref_uri == MatchRefUri(line)
        re_uri     == MatchUri(line)
        fs1 == IF re_ref # <<>> THEN Append(fs, re_ref[1]) ELSE fs
        rf  == IF re_ref_uri # <<>>
               THEN DictSet(refs, re_ref_uri[1].ref, re_ref_uri[1].uri)
               ELSE refs
        fs2 == IF re_ref_uri # <<>> THEN Append(fs1, re_ref_uri[1].uri) ELSE fs1
        fs3 == IF re_uri # <<>> THEN Append(fs2, re_uri[1]) ELSE fs2
    IN  [figs |-> fs3, fig_refs |-> rf]

\* lines 638-649: the body of the scan loop, for one line
ScanLine(line, fs, refs) ==
    LET re_ref     == MatchRef(line)
        re_ref_uri == MatchRefUri(line)
        re_uri     == MatchUri(line)
        fs1 == IF re_ref # <<>> THEN Append(fs, re_ref[1]) ELSE fs
        rf  == IF re_ref_uri # <<>>
               THEN DictSet(refs, re_ref_uri[1].ref, re_ref_uri[1].uri)
               ELSE refs
        fs2 == IF re_uri # <<>> THEN Append(fs1, re_uri[1]) ELSE fs1
    IN  [figs |-> fs2, fig_refs |-> rf]

\* Resolved without the strip
Resolved_NoStrip(fs, refs) ==
    [i \in 1..Len(fs) |-> IF fs[i] \in DOMAIN refs THEN refs[fs[i]] ELSE fs[i]]

\* lines 650-652: the resolution pass
Resolved(fs, refs) ==
    [i \in 1..Len(fs) |->
        IF fs[i] \in DOMAIN refs THEN Strip(refs[fs[i]]) ELSE fs[i]]

\* One iteration of the loop of line 637.
FigLine ==
    /\ pc = "find_figures"
    /\ pos <= Len(doc)
    /\ LET scanned == ScanLine(doc[pos], figs, fig_refs)
       IN  /\ figs' = scanned.figs
           /\ fig_refs' = scanned.fig_refs
    /\ pos' = pos + 1
    /\ UNCHANGED <<entry, pc, doc, skip_sections, limits, blocks, lines,
                   len_last_line, wc_partial, wc_total, tests, attaches,
                   num_figure_captions, file_size>>
    /\ UNCHANGED io

\* The end of the scan, the resolution pass and the return.
FigReturn ==
    /\ pc = "find_figures"
    /\ pos > Len(doc)
    /\ figs' = Resolved(figs, fig_refs)
    /\ pc' = IF entry = "honolulu" THEN "test_counts" ELSE "returned"
    /\ pos' = 1
    /\ UNCHANGED <<entry, doc, skip_sections, limits, blocks, lines,
                   len_last_line, wc_partial, wc_total, fig_refs, tests,
                   attaches, num_figure_captions, file_size>>
    /\ UNCHANGED io

\* find_figures called on a document
InitFindFigures ==
    /\ entry = "find_figures"
    /\ pc = "find_figures"
    /\ doc \in Docs(FigPool)
    /\ skip_sections = <<>>
    /\ limits = D_LIMITS
    /\ pos = 1
    /\ blocks = <<>>
    /\ lines = <<>>
    /\ len_last_line = 0
    /\ wc_partial = 0
    /\ wc_total = 0
    /\ figs = <<>>
    /\ fig_refs = <<>>
    /\ tests = <<>>
    /\ attaches = <<>>
    /\ num_figure_captions = 0
    /\ file_size = <<>>
    /\ args = <<>>
    /\ ret = "None"
    /\ files = <<>>
    /\ trace = <<>>
    /\ outputs = <<>>

NextFindFigures == FigLine \/ FigReturn

SpecFindFigures == InitFindFigures /\ [][NextFindFigures]_vars

-----------------------------------------------------------------------------
(* honolulu: the constraint checks *)

\* the marking glyph, U+22C6 in the source
GLIPH == "*"

\* Limits tables: the default one, and one whose thresholds a short document
\* reaches.
TightLimits ==
    [wc_tot |-> 2, wc_synopsis |-> 1, wc_fig |-> 1, n_figs |-> 1, fig_size |-> 1]

LimitsPool == {D_LIMITS, TightLimits}

\* What os.path.isfile and os.path.getsize may answer for a figure's path.
FileStates ==
    {[isfile |-> FALSE, size |-> 0],
     [isfile |-> TRUE, size |-> 1],
     [isfile |-> TRUE, size |-> 2000001]}

\* Lines for honolulu: bodies, ATX headings (plain, Synopsis, a figure
\* caption, another skip section), an underline, an inline image, a
\* referenced image and a definition of its label.
HonoluluPool == {
    <<"a", "b">>,
    <<"a", " ", "b">>,
    <<"-", "-">>,
    <<"#", " ", "T">>,
    <<"#", " ", "S", "y", "n", "o", "p", "s", "i", "s">>,
    <<"#", "#", " ", "F", "i", "g", "u", "r", "e", " ", "1">>,
    <<"#", " ", "T", "a", "b", "l", "e">>,
    <<"!", "[", "a", "]", "(", "f", ")">>,
    <<"[", "!", "[", "a", "]", "[", "1", "]", "]", "[", "1", "]">>,
    <<"[", "1", "]", ":", " ", "g", " ">> }

\* Longer documents: three inline figures and two captions; one section of
\* each kind with a body, and an empty figure section.
HonoluluExampleDocs == {
    << <<"!", "[", "a", "]", "(", "f", ")">>,
       <<"!", "[", "a", "]", "(", "f", ")">>,
       <<"!", "[", "a", "]", "(", "f", ")">>,
       <<"#", "#", " ", "F", "i", "g", "u", "r", "e", " ", "1">>, <<"a", "b">>,
       <<"#", "#", " ", "F", "i", "g", "u", "r", "e", " ", "1">>, <<"a", " ", "b">> >>,
    << <<"#", " ", "S", "y", "n", "o", "p", "s", "i", "s">>, <<"a", " ", "b">>,
       <<"#", " ", "T">>, <<"a", "b">>,
       <<"#", " ", "T", "a", "b", "l", "e">>, <<"a", "b">>,
       <<"#", "#", " ", "F", "i", "g", "u", "r", "e", " ", "1">>,
       <<"#", "#", " ", "F", "i", "g", "u", "r", "e", " ", "1">>, <<"a", "b">> >> }

\* a Python bool as a verdict; None is "None"
Cond(b) == IF b THEN "True" ELSE "False"

\* lines 817-827: _test_pass.  The formatted text is kept as its parts.
TestPass(cond, text, test_list, attach_list) ==
    LET mode == IF cond = "True" THEN "I" ELSE IF cond = "None" THEN GLIPH ELSE "E"
        res  == IF cond = "True" THEN "OK" ELSE IF cond = "None" THEN " " ELSE "ERR"
    IN  [tests |-> Append(test_list, cond),
         attaches |-> Append(attach_list, [mode |-> mode, text |-> text, res |-> res])]

\* lines 858-861
TotalCondition(n, lim) == Cond(n <= lim.wc_tot)

\* Reported without the test of num_words
Reported_Always(block) == TRUE

\* line 865
Reported(block) == block.num_words # 0

\* BlockCheck with strict comparisons
BlockCheck_Strict(block, lim) ==
    IF block.title = <<"S", "y", "n", "o", "p", "s", "i", "s">>
    THEN [condition |-> Cond(block.num_words < lim.wc_synopsis),
          limit |-> <<lim.wc_synopsis>>, gliph |-> <<>>, caption |-> 0]
    ELSE IF StartsWith(block.title, <<"F", "i", "g", "u", "r", "e">>)
    THEN [condition |-> Cond(block.num_words < lim.wc_fig),
          limit |-> <<lim.wc_fig>>, gliph |-> <<>>, caption |-> 1]
    ELSE IF ~block.skip
    THEN [condition |-> "None", limit |-> <<GLIPH>>, gliph |-> <<GLIPH>>,
          caption |-> 0]
    ELSE [condition |-> "None", limit |-> <<0>>, gliph |-> <<>>, caption |-> 0]

\* lines 866-875: condition, limit, gliph and whether the block is a caption
BlockCheck(block, lim) ==
    IF block.title = <<"S", "y", "n", "o", "p", "s", "i", "s">>
    THEN [condition |-> Cond(block.num_words <= lim.wc_synopsis),
          limit |-> <<lim.wc_synopsis>>, gliph |-> <<>>, caption |-> 0]
    ELSE IF StartsWith(block.title, <<"F", "i", "g", "u", "r", "e">>)
    THEN [condition |-> Cond(block.num_words <= lim.wc_fig),
          limit |-> <<lim.wc_fig>>, gliph |-> <<>>, caption |-> 1]
    ELSE IF ~block.skip
    THEN [condition |-> "None", limit |-> <<GLIPH>>, gliph |-> <<GLIPH>>,
          caption |-> 0]
    ELSE [condition |-> "None", limit |-> <<0>>, gliph |-> <<>>, caption |-> 0]

\* lines 884-888
CountCondition(n, lim) == Cond(n <= lim.n_figs)

\* lines 889-895
MatchCondition(nfigs, ncaps) == Cond(nfigs = ncaps)

\* FigSize with 0 for a path that is no file
FigSize_ZeroWhenMissing(state) == IF state.isfile THEN state.size ELSE 0

\* lines 898-906: fig_size, -1 when the path is no file
FigSize(state) == IF state.isfile THEN state.size ELSE -1

\* line 907: fig[:46]
First46(fig) == SubSeq(fig, 1, IF Len(fig) < 46 THEN Len(fig) ELSE 46)

\* line 908
FigCondition(fig_size, lim) == Cond(0 <= fig_size /\ fig_size <= lim.fig_size)

\* lines 858-863
TestTotal ==
    /\ pc = "test_total"
    /\ LET txt == [label |-> <<"Word Count Total", GLIPH>>,
                   value |-> <<wc_partial, "/", <<limits.wc_tot>> >>]
           r   == TestPass(TotalCondition(wc_partial, limits), txt, tests, attaches)
       IN  /\ tests' = r.tests
           /\ attaches' = r.attaches
    /\ num_figure_captions' = 0
    /\ pc' = "test_blocks"
    /\ pos' = 1
    /\ UNCHANGED <<entry, doc, skip_sections, limits, blocks, lines,
                   len_last_line, wc_partial, wc_total, figs, fig_refs,
                   file_size>>
    /\ UNCHANGED io

\* One iteration of the loop of line 864.
TestBlock ==
    /\ pc = "test_blocks"
    /\ pos <= Len(blocks)
    /\ LET block == blocks[pos]
           chk   == BlockCheck(block, limits)
           txt   == [label |-> <<"Word Count:", block.title, chk.gliph>>,
                     value |-> <<block.num_words, "/", chk.limit>>]
           r     == TestPass(chk.condition, txt, tests, attaches)
       IN  IF Reported(block)
           THEN /\ tests' = r.tests
                /\ attaches' = r.attaches
                /\ num_figure_captions' = num_figure_captions + chk.caption
           ELSE UNCHANGED <<tests, attaches, num_figure_captions>>
    /\ pos' = pos + 1
    /\ UNCHANGED <<entry, pc, doc, skip_sections, limits, blocks, lines,
                   len_last_line, wc_partial, wc_total, figs, fig_refs,
                   file_size>>
    /\ UNCHANGED io

\* line 882: the loop over the blocks has ended, find_figures is called
CallFindFigures ==
    /\ pc = "test_blocks"
    /\ pos > Len(blocks)
    /\ pc' = "find_figures"
    /\ pos' = 1
    /\ figs' = <<>>
    /\ fig_refs' = <<>>
    /\ UNCHANGED <<entry, doc, skip_sections, limits, blocks, lines,
                   len_last_line, wc_partial, wc_total, tests, attaches,
                   num_figure_captions, file_size>>
    /\ UNCHANGED io

\* lines 883-895: the two counts against n_figs, then their match
TestCounts ==
    /\ pc = "test_counts"
    /\ LET nf == Len(figs)
           t1 == [label |-> <<"Number of", "figures">>,
                  value |-> <<nf, "/", <<limits.n_figs>> >>]
           r1 == TestPass(CountCondition(nf, limits), t1, tests, attaches)
           t2 == [label |-> <<"Number of", "captions">>,
                  value |-> <<num_figure_captions, "/", <<limits.n_figs>> >>]
           r2 == TestPass(CountCondition(num_figure_captions, limits), t2,
                          r1.tests, r1.attaches)
           t3 == [label |-> <<"Matching number of figures and captions">>,
                  value |-> <<nf, IF nf = num_figure_captions THEN "=" ELSE "!=",
                              <<num_figure_captions>> >>]
           r3 == TestPass(MatchCondition(nf, num_figure_captions), t3,
                          r2.tests, r2.attaches)
       IN  /\ tests' = r3.tests
           /\ attaches' = r3.attaches
    /\ pc' = "test_figs"
    /\ pos' = 1
    /\ UNCHANGED <<entry, doc, skip_sections, limits, blocks, lines,
                   len_last_line, wc_partial, wc_total, figs, fig_refs,
                   num_figure_captions, file_size>>
    /\ UNCHANGED io

\* One iteration of the loop of line 897.  The file system answers for a
\* path it was not asked about before, and the same as before otherwise.
TestFig ==
    /\ pc = "test_figs"
    /\ pos <= Len(figs)
    /\ \E state \in FileStates :
        /\ figs[pos] \in DOMAIN file_size => state = file_size[figs[pos]]
        /\ file_size' = DictSet(file_size, figs[pos], state)
        /\ LET fig_size == FigSize(state)
               txt == [label |-> <<First46(figs[pos])>>,
                       value |-> IF state.isfile
                                 THEN <<fig_size, "/", <<limits.fig_size>> >>
                                 ELSE <<"NOT FOUND!">>]
               r   == TestPass(FigCondition(fig_size, limits), txt, tests, attaches)
           IN  /\ tests' = r.tests
               /\ attaches' = r.attaches
    /\ pos' = pos + 1
    /\ UNCHANGED <<entry, pc, doc, skip_sections, limits, blocks, lines,
                   len_last_line, wc_partial, wc_total, figs, fig_refs,
                   num_figure_captions>>
    /\ UNCHANGED io

\* honolulu called on a located input file, at the call of word_count
Init ==
    /\ entry = "honolulu"
    /\ pc = "word_count"
    /\ doc \in Docs(HonoluluPool) \cup HonoluluExampleDocs
    /\ skip_sections = D_SKIP_SECTIONS
    /\ limits \in LimitsPool
    /\ pos = 1
    /\ blocks = <<>>
    /\ lines = <<>>
    /\ len_last_line = 0
    /\ wc_partial = 0
    /\ wc_total = 0
    /\ figs = <<>>
    /\ fig_refs = <<>>
    /\ tests = <<>>
    /\ attaches = <<>>
    /\ num_figure_captions = 0
    /\ file_size = <<>>
    /\ args = [export |-> {"html", "pdf"}, attach |-> TRUE, backup |-> FALSE,
               force |-> FALSE]
    /\ ret = "None"
    /\ files = <<>>
    /\ trace = <<>>
    /\ outputs = <<>>

Next ==
    \/ WcLine
    \/ WcReturn
    \/ TestTotal
    \/ TestBlock
    \/ CallFindFigures
    \/ FigLine
    \/ FigReturn
    \/ TestCounts
    \/ TestFig

Spec == Init /\ [][Next]_vars

-----------------------------------------------------------------------------
(* The structure of a document, read off its lines *)

\* the line starts with one of the ATX prefixes "# " .. "###### "
IsAtxLine(line) ==
    \E n \in 1..6 :
        /\ Len(line) > n
        /\ \A j \in 1..n : line[j] = "#"
        /\ line[n + 1] = " "

\* the line starts with "#", "!" or "["
IsSkipped(line) == Len(line) > 0 /\ line[1] \in {"#", "!", "["}

\* the last line before line k of d that is not skipped, 0 if there is none
PrevKept(d, k) ==
    LET P == {j \in 1..(k - 1) : ~IsSkipped(d[j])}
    IN  IF P = {} THEN 0 ELSE Max(P)

\* line k of d is a Setext underline: it starts with "==" or "--" and is as
\* long as the last line before it that was not skipped
IsUnderline(d, k) ==
    /\ ~IsSkipped(d[k])
    /\ Len(d[k]) >= 2
    /\ d[k][1] \in {"=", "-"}
    /\ d[k][2] = d[k][1]
    /\ PrevKept(d, k) > 0
    /\ Len(d[k]) = Len(d[PrevKept(d, k)])

\* the lines that open a block: ATX heading lines and Setext underlines
HeadingEvents(d) == {k \in 1..Len(d) : IsAtxLine(d[k]) \/ IsUnderline(d, k)}

\* the first line of the heading whose event is line k
HeadingStart(d, k) == IF IsAtxLine(d[k]) THEN k ELSE PrevKept(d, k)

\* the lines of all headings
HeadingLines(d) == HeadingEvents(d) \cup {HeadingStart(d, k) : k \in HeadingEvents(d)}

\* the j-th smallest element of a set of numbers
RECURSIVE Nth(_, _)
Nth(S, j) ==
    LET m == CHOOSE x \in S : \A y \in S : x <= y
    IN  IF j = 1 THEN m ELSE Nth(S \ {m}, j - 1)

\* the lines of d at the positions lo..hi that are in the set K, in order
RECURSIVE LinesAt(_, _, _, _)
LinesAt(d, lo, hi, K) ==
    IF lo > hi THEN <<>>
    ELSE (IF lo \in K THEN <<d[lo]>> ELSE <<>>) \o LinesAt(d, lo + 1, hi, K)

\* the positions of the non-blank lines that are not skipped
KeptLines(d) == {k \in 1..Len(d) : Len(d[k]) > 0 /\ ~IsSkipped(d[k])}

\* the body lines between the j-th heading and the next one
SectionBody(d, j) ==
    LET E    == HeadingEvents(d)
        from == Nth(E, j) + 1
        to   == IF j < Cardinality(E)
                THEN HeadingStart(d, Nth(E, j + 1)) - 1
                ELSE Len(d)
    IN  LinesAt(d, from, to, KeptLines(d) \ HeadingLines(d))

\* all text lines of the blocks, in block order
RECURSIVE AllText(_)
AllText(bl) == IF bl = <<>> THEN <<>> ELSE bl[1].text \o AllText(Tail(bl))

\* s is t with some elements left out
RECURSIVE IsSubsequence(_, _)
IsSubsequence(s, t) ==
    IF s = <<>> THEN TRUE
    ELSE IF t = <<>> THEN FALSE
    ELSE IF s[1] = t[1] THEN IsSubsequence(Tail(s), Tail(t))
    ELSE IsSubsequence(s, Tail(t))

\* the sum of num_words over the blocks at the positions in K
RECURSIVE SumWords(_, _)
SumWords(bl, K) ==
    IF K = {} THEN 0
    ELSE LET k == CHOOSE x \in K : TRUE
         IN  bl[k].num_words + SumWords(bl, K \ {k})

Returned == entry = "word_count" /\ pc = "returned"

-----------------------------------------------------------------------------
(* Claims about word_count *)

\* C1: a block opened by a Setext heading has level 0 when the underline
\* starts with "=" and level 1 when it starts with "-".
C1_SetextLevelFromToken ==
    [][(/\ pc = "word_count"
        /\ pos <= Len(doc)
        /\ ~IsSkipped(doc[pos])
        /\ Len(blocks') = Len(blocks) + 1)
       => blocks'[Len(blocks')].level = (IF doc[pos][1] = "=" THEN 0 ELSE 1)]_vars

\* C2: the text of every returned block is exactly the non-blank, not
\* skipped, non-heading lines between its heading and the next heading (or
\* the end); no line before the first heading is in any block.
C2_TextIsSectionBody ==
    Returned =>
        /\ Len(blocks) = Cardinality(HeadingEvents(doc))
        /\ \A j \in 1..Len(blocks) : blocks[j].text = SectionBody(doc, j)

\* a reconstruction of the heading of a block: an ATX line, or the title
\* over an underline of its length
HeadingAs(block, style) ==
    IF style = "#"
    THEN << D_HDR_TOKENS[block.level + 1] \o block.title >>
    ELSE << block.title, [j \in 1..Len(block.title) |-> style] >>

RECURSIVE Reserialized(_, _, _)
Reserialized(bl, styles, k) ==
    IF k > Len(bl) THEN <<>>
    ELSE HeadingAs(bl[k], styles[k]) \o bl[k].text
         \o Reserialized(bl, styles, k + 1)

NotSkippedLine(line) == Len(line) > 0 /\ ~IsSkipped(line)

C4_NoHeadingNoBlocks ==
    HeadingEvents(doc) = {} =>
        /\ pc # "raised"
        /\ Returned => blocks = <<>> /\ wc_partial = 0 /\ wc_total = 0

C4_Witness ==
    /\ Returned
    /\ HeadingEvents(doc) = {}
    /\ \E k \in 1..Len(doc) : doc[k] = <<"a", " ", "b">>
    /\ \E k \in 1..Len(doc) : doc[k] = <<"-", "-">>

-----------------------------------------------------------------------------
(* Claims about find_figures *)

FigReturned == entry = "find_figures" /\ pc = "returned"

\* the image lines of d: the referenced and the inline ones
IsRefImage(line) == MatchRef(line) # <<>>
IsInlineImage(line) == MatchUri(line) # <<>>
ImageLines(d) == {k \in 1..Len(d) : IsRefImage(d[k]) \/ IsInlineImage(d[k])}

\* the lines of d that define label n
DefLines(d, n) ==
    {k \in 1..Len(d) : MatchRefUri(d[k]) # <<>> /\ MatchRefUri(d[k])[1].ref = n}

\* what the image line k of d puts in the list: its label or its uri
RawEntry(d, k) == IF IsRefImage(d[k]) THEN MatchRef(d[k])[1] ELSE MatchUri(d[k])[1]

\* s without its leading and trailing blanks, character by character
RECURSIVE Trimmed(_)
Trimmed(s) ==
    IF s = <<>> THEN s
    ELSE IF Head(s) \in Whitespace THEN Trimmed(Tail(s))
    ELSE IF s[Len(s)] \in Whitespace THEN Trimmed(SubSeq(s, 1, Len(s) - 1))
    ELSE s

\* C6: the entry of a referenced-image line whose label n is defined by a
\* line "[n]: uri" anywhere in the document, before or after it, is the
\* trimmed uri of that definition (the last one, if there are several) and
\* not the label.
C6_ReferenceResolved ==
    FigReturned =>
        \A j \in 1..Cardinality(ImageLines(doc)) :
            LET k == Nth(ImageLines(doc), j)
                n == RawEntry(doc, k)
            IN  (IsRefImage(doc[k]) /\ DefLines(doc, n) # {}) =>
                    /\ j <= Len(figs)
                    /\ figs[j] = Trimmed(MatchRefUri(doc[Max(DefLines(doc, n))])[1].uri)

C6_Witness ==
    /\ FigReturned
    /\ Len(doc) = 3
    /\ IsRefImage(doc[1]) /\ MatchRef(doc[1])[1] = <<"1">>
    /\ doc[2] = <<"[", "1", "]", ":", " ", "g", " ">>
    /\ IsRefImage(doc[3]) /\ MatchRef(doc[3])[1] = <<"1">>
    /\ figs = << <<"g">>, <<"g">> >>

\* C7: the list has one entry per inline-image and per referenced-image
\* line, in the order of those lines; definition lines add no entry, and the
\* resolution pass keeps the number and the places of the entries.
C7_OneEntryPerImageInOrder ==
    /\ (entry = "find_figures" /\ pc = "find_figures") =>
        LET seen == {k \in ImageLines(doc) : k < pos}
        IN  /\ Len(figs) = Cardinality(seen)
            /\ \A j \in 1..Len(figs) : figs[j] = RawEntry(doc, Nth(seen, j))
    /\ FigReturned =>
        /\ Len(figs) = Cardinality(ImageLines(doc))
        /\ \A j \in 1..Len(figs) :
            LET raw == RawEntry(doc, Nth(ImageLines(doc), j))
            IN  \/ DefLines(doc, raw) = {} /\ figs[j] = raw
                \/ \E k \in DefLines(doc, raw) :
                        figs[j] = Trimmed(MatchRefUri(doc[k])[1].uri)

C7_Witness ==
    /\ FigReturned
    /\ Len(doc) = 3
    /\ IsInlineImage(doc[1])
    /\ MatchRefUri(doc[2]) # <<>>
    /\ IsRefImage(doc[3])
    /\ figs = << <<"f">>, <<"g">> >>

-----------------------------------------------------------------------------
(* Claims about the checks of honolulu *)

Synopsis == <<"S", "y", "n", "o", "p", "s", "i", "s">>

\* the title starts with "Figure"
IsFigureTitle(title) ==
    /\ Len(title) >= 6
    /\ title[1] = "F" /\ title[2] = "i" /\ title[3] = "g"
    /\ title[4] = "u" /\ title[5] = "r" /\ title[6] = "e"

\* the blocks with at least one word
NonEmptyBlocks == {j \in 1..Len(blocks) : blocks[j].num_words > 0}

\* the places in tests of the verdict on the match of the two counts, and of
\* the verdict before the first figure's
MatchIndex == 1 + Cardinality(NonEmptyBlocks) + 3

\* C8: a referenced-image label without a definition stays in the figure
\* list as it is; every figure entry whose file does not exist gets exactly
\* one verdict, False, reported as not found, and the checks go on.
C8_MissingFigureFails ==
    entry = "honolulu" =>
        /\ pc \in {"test_counts", "test_figs"} =>
            /\ Len(figs) = Cardinality(ImageLines(doc))
            /\ \A j \in 1..Len(figs) :
                LET k == Nth(ImageLines(doc), j)
                IN  (IsRefImage(doc[k]) /\ DefLines(doc, RawEntry(doc, k)) = {})
                        => figs[j] = RawEntry(doc, k)
        /\ pc = "test_figs" =>
            /\ Len(tests) = MatchIndex + (pos - 1)
            /\ Len(attaches) = Len(tests)
            /\ \A j \in 1..(pos - 1) :
                ~file_size[figs[j]].isfile =>
                    /\ tests[MatchIndex + j] = "False"
                    /\ attaches[MatchIndex + j].res = "ERR"
                    /\ attaches[MatchIndex + j].text.label = <<figs[j]>>
                    /\ attaches[MatchIndex + j].text.value = <<"NOT FOUND!">>
            /\ pos <= Len(figs) => ENABLED TestFig

C8_Witness ==
    /\ entry = "honolulu"
    /\ pc = "test_figs"
    /\ pos > Len(figs)
    /\ figs = << <<"1">>, <<"f">> >>
    /\ ~file_size[<<"1">>].isfile
    /\ file_size[<<"f">>].isfile
    /\ tests[MatchIndex + 1] = "False"
    /\ tests[MatchIndex + 2] = "True"

\* C9 as stated: the caption count is the number of blocks whose title
\* starts with "Figure", whatever their body, and the verdict on the match
\* is a pass iff the number of figure entries equals it.
C9_CaptionsAreFigureBlocks ==
    (entry = "honolulu" /\ pc = "test_figs") =>
        LET caps == Cardinality({j \in 1..Len(blocks) : IsFigureTitle(blocks[j].title)})
        IN  /\ num_figure_captions = caps
            /\ tests[MatchIndex] = "True" <=> Len(figs) = caps

\* C9 amended: the caption count is the number of blocks whose title starts
\* with "Figure" and whose body has at least one word; the verdict on the
\* match is a pass iff the number of figure entries equals it, and the two
\* counts are reported with "=" or the unequal sign.
C9_CaptionsAreNonEmptyFigureBlocks ==
    (entry = "honolulu" /\ pc = "test_figs") =>
        LET caps == Cardinality({j \in NonEmptyBlocks : IsFigureTitle(blocks[j].title)})
        IN  /\ num_figure_captions = caps
            /\ tests[MatchIndex] \in {"True", "False"}
            /\ tests[MatchIndex] = "True" <=> Len(figs) = caps
            /\ attaches[MatchIndex].text.value =
                <<Len(figs), IF tests[MatchIndex] = "True" THEN "=" ELSE "!=", <<caps>> >>

C9_Witness ==
    /\ entry = "honolulu"
    /\ pc = "test_figs"
    /\ Len(figs) = 3
    /\ Cardinality({j \in 1..Len(blocks) : IsFigureTitle(blocks[j].title)}) = 2
    /\ num_figure_captions = 2
    /\ tests[MatchIndex] = "False"
    /\ attaches[MatchIndex].text.value = <<3, "!=", <<2>> >>

\* the verdict of a threshold
PassIff(b) == IF b THEN "True" ELSE "False"

RECURSIVE VerdictsAsStated(_, _)
VerdictsAsStated(bl, lim) ==
    IF bl = <<>> THEN <<>>
    ELSE LET b == Head(bl)
             v == IF b.title = Synopsis
                  THEN << PassIff(b.num_words <= lim.wc_synopsis) >>
                  ELSE IF IsFigureTitle(b.title)
                  THEN << PassIff(b.num_words <= lim.wc_fig) >>
                  ELSE IF b.num_words > 0 /\ ~b.skip THEN << "None" >>
                  ELSE <<>>
         IN  v \o VerdictsAsStated(Tail(bl), lim)

RECURSIVE VerdictsAmended(_, _)
VerdictsAmended(bl, lim) ==
    IF bl = <<>> THEN <<>>
    ELSE LET b == Head(bl)
             v == IF b.num_words = 0 THEN <<>>
                  ELSE IF b.title = Synopsis
                  THEN << PassIff(b.num_words <= lim.wc_synopsis) >>
                  ELSE IF IsFigureTitle(b.title)
                  THEN << PassIff(b.num_words <= lim.wc_fig) >>
                  ELSE << "None" >>
         IN  v \o VerdictsAmended(Tail(bl), lim)

\* C10 as stated: a block titled "Synopsis" gets pass iff num_words <=
\* wc_synopsis, one whose title starts with "Figure" pass iff num_words <=
\* wc_fig, any other block the null verdict iff it is non-empty and not
\* skip-flagged, and no verdict otherwise.
C10_BlockVerdicts ==
    (entry = "honolulu" /\ pc = "test_blocks") =>
        Tail(tests) = VerdictsAsStated(SubSeq(blocks, 1, pos - 1), limits)

\* C10 amended: a block with no word gets no verdict, whatever its title; a
\* non-empty block titled "Synopsis" gets pass iff num_words <= wc_synopsis,
\* a non-empty one whose title starts with "Figure" pass iff num_words <=
\* wc_fig, and every other non-empty block the null verdict, skip-flagged
\* or not.
C10_NonEmptyBlockVerdicts ==
    (entry = "honolulu" /\ pc = "test_blocks") =>
        Tail(tests) = VerdictsAmended(SubSeq(blocks, 1, pos - 1), limits)

C10_Witness ==
    /\ entry = "honolulu"
    /\ pc = "test_blocks"
    /\ pos > Len(blocks)
    /\ Len(blocks) = 5
    /\ limits.wc_synopsis = 1
    /\ \E j \in 1..5 : blocks[j].num_words = 0 /\ IsFigureTitle(blocks[j].title)
    /\ \E j \in 1..5 : blocks[j].num_words > 0 /\ blocks[j].skip
                        /\ blocks[j].title = <<"T", "a", "b", "l", "e">>
    /\ Tail(tests) = <<"False", "None", "None", "True">>

-----------------------------------------------------------------------------
(* gen_report *)

\* the longest list of descriptions given to gen_report
MaxReportLines == 2

\* the line break of a Python str
NL == "\n"

\* c * n
Repeat(c, n) == [i \in 1..n |-> c]

\* ''.join(parts)
RECURSIVE Concat(_)
Concat(parts) ==
    IF parts = <<>> THEN <<>> ELSE Head(parts) \o Concat(Tail(parts))

\* sep.join(parts)
RECURSIVE JoinBy(_, _)
JoinBy(sep, parts) ==
    IF parts = <<>> THEN <<>>
    ELSE IF Len(parts) = 1 THEN parts[1]
    ELSE parts[1] \o sep \o JoinBy(sep, Tail(parts))

\* text.split('\n')
RECURSIVE SplitLines(_)
SplitLines(text) ==
    LET breaks == {i \in 1..Len(text) : text[i] = NL}
    IN  IF breaks = {} THEN <<text>>
        ELSE LET i == CHOOSE b \in breaks : \A c \in breaks : b <= c
             IN  <<SubSeq(text, 1, i - 1)>> \o SplitLines(DropPrefix(text, i))

\* line 760: line.replace(' ', '&nbsp;')
Nbsp(line) ==
    Concat([i \in 1..Len(line) |->
        IF line[i] = " " THEN <<"&", "n", "b", "s", "p", ";">> ELSE <<line[i]>>])

\* '{:>{n}s}'.format(s, n=n): s, right-aligned in a field of n characters
AlignRight(s, n) == IF Len(s) >= n THEN s ELSE Repeat(" ", n - Len(s)) \o s

\* the default of gen_report's title
ReportTitle == <<"T", "e", "s", "t", " ", "R", "e", "s", "u", "l", "t", "s">>

\* the default of gen_report's final, up to its field {result}
ReportFinal == <<"F", "i", "n", "a", "l", " ", "R", "e", "s", "u", "l", "t", ":", " ">>

\* lines 766 and 959: all([test for test in tests if test is not None])
AllNotNone(test_list) ==
    LET kept == SelectSeq(test_list, LAMBDA t : t # "None")
    IN  \A i \in 1..Len(kept) : kept[i] = "True"

\* line 768
Result(final_test) == IF final_test THEN <<"O", "K">> ELSE <<"E", "R", "R">>

\* line 767
Color(final_test) == IF final_test THEN <<"g", "r", "e", "e", "n">> ELSE <<"r", "e", "d">>

\* lines 741-749: the title, in the style asked for
ReportHeading(hdr_style) ==
    IF hdr_style > 0
    THEN D_HDR_TOKENS[hdr_style] \o ReportTitle \o <<NL>>
    ELSE IF hdr_style < 0
    THEN ReportTitle \o <<NL>> \o Repeat("-", Len(ReportTitle)) \o <<NL>>
    ELSE ReportTitle \o <<NL>>

\* lines 753-760: one item of the HTML list
HtmlItem(line, test) ==
    LET attr == IF test = "True" THEN <<"g", "r", "e", "e", "n">>
                ELSE IF test # "None" THEN <<"r", "e", "d">> ELSE <<>>
    IN  <<"-", " ", "<", "s", "p", "a", "n", " ", "c", "l", "a", "s", "s", "=", "\"">> \o attr \o <<"\"", ">">> \o Nbsp(line) \o <<"<", "/", "s", "p", "a", "n", ">">> \o <<NL>>

\* lines 751-763: the body; zip stops at the shorter of the two lists
ReportBody(report_lines, test_list, use_html) ==
    IF use_html
    THEN LET n == IF Len(report_lines) < Len(test_list)
                  THEN Len(report_lines) ELSE Len(test_list)
         IN  Concat([i \in 1..n |-> HtmlItem(report_lines[i], test_list[i])])
             \o <<NL>>
    ELSE JoinBy(<<NL>>, report_lines) \o <<NL>>

\* ReportFooter without the ruler of line 769
ReportFooter_NoRuler(report_lines, test_list, use_html) ==
    IF report_lines = <<>> THEN <<>>
    ELSE LET final_test == AllNotNone(test_list)
             last == report_lines[Len(report_lines)]
             text == ReportFinal \o Result(final_test)
         IN  <<NL>>
             \o (IF use_html
                 THEN <<"<", "s", "p", "a", "n", " ", "c", "l", "a", "s", "s", "=", "\"">> \o Color(final_test) \o <<"\"", ">">> \o text \o <<"<", "/", "s", "p", "a", "n", ">">>
                 ELSE AlignRight(text, Len(last)))

\* lines 765-773: the ruler and the final result
ReportFooter(report_lines, test_list, use_html) ==
    IF report_lines = <<>> THEN <<>>
    ELSE LET final_test == AllNotNone(test_list)
             last == report_lines[Len(report_lines)]
             text == ReportFinal \o Result(final_test)
         IN  <<NL>> \o Repeat("-", Len(last)) \o <<NL>>
             \o (IF use_html
                 THEN <<"<", "s", "p", "a", "n", " ", "c", "l", "a", "s", "s", "=", "\"">> \o Color(final_test) \o <<"\"", ">">> \o text \o <<"<", "/", "s", "p", "a", "n", ">">>
                 ELSE AlignRight(text, Len(last)))

\* lines 739-774, with the default title, final, prefix and suffix
GenReport(report_lines, test_list, hdr_style, use_html) ==
    <<NL, NL>> \o ReportHeading(hdr_style)
    \o ReportBody(report_lines, test_list, use_html)
    \o ReportFooter(report_lines, test_list, use_html)

\* Descriptions: an empty one, one and two words, and one that is longer
\* than the final result's text.
ReportPool == {
    <<>>,
    <<"a", "b">>,
    <<"a", " ", "b">>,
    <<"E", ":", " ", "N", "u", "m", "b", "e", "r", " ", "o", "f", " ", "f", "i", "g", "u", "r", "e", "s">> }

\* a verdict is True, False or None
Verdicts == {"True", "False", "None"}

\* heading styles: '#'-style of level 2 (the default), underlined, plain
HdrStyles == {2, -1, 0}

\* The call of gen_report.
GenReportCall ==
    /\ pc = "gen_report"
    /\ ret' = GenReport(attaches, tests, args.hdr_style, args.use_html)
    /\ pc' = "returned"
    /\ UNCHANGED <<entry, doc, skip_sections, limits, pos, blocks, lines,
                   len_last_line, wc_partial, wc_total, figs, fig_refs, tests,
                   attaches, num_figure_captions, file_size, args, files,
                   trace, outputs>>

\* gen_report called on descriptions and their paired verdicts
InitGenReport ==
    /\ entry = "gen_report"
    /\ pc = "gen_report"
    /\ \E n \in 0..MaxReportLines :
        /\ attaches \in [1..n -> ReportPool]
        /\ tests \in [1..n -> Verdicts]
    /\ args \in [hdr_style : HdrStyles, use_html : BOOLEAN]
    /\ ret = "None"
    /\ doc = <<>>
    /\ skip_sections = <<>>
    /\ limits = D_LIMITS
    /\ pos = 1
    /\ blocks = <<>>
    /\ lines = <<>>
    /\ len_last_line = 0
    /\ wc_partial = 0
    /\ wc_total = 0
    /\ figs = <<>>
    /\ fig_refs = <<>>
    /\ num_figure_captions = 0
    /\ file_size = <<>>
    /\ files = <<>>
    /\ trace = <<>>
    /\ outputs = <<>>

NextGenReport == GenReportCall

SpecGenReport == InitGenReport /\ [][NextGenReport]_vars

-----------------------------------------------------------------------------
(* C12: the lines of a plain report *)

GenReportReturned == entry = "gen_report" /\ pc = "returned"

\* the lines of a text that are not blank
NonBlank(ls) == SelectSeq(ls, LAMBDA l : Strip(l) # <<>>)

\* a line that states the overall result and nothing else
IsSummaryLine(l) ==
    Strip(l) \in {ReportFinal \o <<"O", "K">>, ReportFinal \o <<"E", "R", "R">>}

\* the title as the asked style writes it
TitleLines(hdr_style) ==
    IF hdr_style > 0 THEN <<D_HDR_TOKENS[hdr_style] \o ReportTitle>>
    ELSE IF hdr_style < 0 THEN <<ReportTitle, Repeat("-", Len(ReportTitle))>>
    ELSE <<ReportTitle>>

\* C12 as stated: for a non-empty list of descriptions, the non-blank lines
\* of the plain report are one title line, the descriptions in their order
\* and one summary line, and nothing else.
C12_PlainReportLines ==
    (GenReportReturned /\ attaches # <<>> /\ ~args.use_html) =>
        LET nb == NonBlank(SplitLines(ret))
            n  == Len(attaches)
        IN  /\ Len(nb) = n + 2
            /\ Contains(nb[1], ReportTitle)
            /\ \A i \in 1..n : nb[i + 1] = attaches[i]
            /\ IsSummaryLine(nb[n + 2])

\* C12 amended: for a non-empty list of descriptions, the plain report split
\* at its line breaks is two empty lines, the title (with its underline when
\* the style is negative), the descriptions in their order, an empty line,
\* a ruler of as many dashes as the last description has characters, and
\* the summary right-aligned to the ruler.
C12_PlainReportLinesWithRuler ==
    (GenReportReturned /\ attaches # <<>> /\ ~args.use_html) =>
        LET ls   == SplitLines(ret)
            n    == Len(attaches)
            last == attaches[n]
            t    == Len(TitleLines(args.hdr_style))
        IN  /\ Len(ls) = 2 + t + n + 3
            /\ SubSeq(ls, 1, 2) = << <<>>, <<>> >>
            /\ SubSeq(ls, 3, 2 + t) = TitleLines(args.hdr_style)
            /\ SubSeq(ls, 3 + t, 2 + t + n) = attaches
            /\ ls[3 + t + n] = <<>>
            /\ ls[4 + t + n] = Repeat("-", Len(last))
            /\ IsSummaryLine(ls[5 + t + n])
            /\ Len(ls[5 + t + n]) = Max({Len(last), Len(Strip(ls[5 + t + n]))})
            /\ Strip(ls[5 + t + n]) = ReportFinal \o Result(AllNotNone(tests))

\* a plain report of two descriptions whose ruler is longer than the summary
C12_Witness ==
    /\ GenReportReturned
    /\ ~args.use_html
    /\ args.hdr_style = 2
    /\ Len(attaches) = 2
    /\ Len(attaches[2]) > Len(ReportFinal) + 3
    /\ tests = <<"True", "False">>
    /\ Len(NonBlank(SplitLines(ret))) = 5

-----------------------------------------------------------------------------
(* check_redo *)

\* the longest list of paths given to check_redo
MaxPaths == 2

\* the latest modification time of a file that is there before the call
MaxTime == 2

\* Paths: two input files, two output files, and the empty path.
InPaths == {"a", "b", ""}

OutPaths == {"c", "d", ""}

\* What os.path.exists and os.path.getmtime may answer for a path, with
\* the contents of the file.
AbsentFile == [exists |-> FALSE, mtime |-> 0, content |-> "-"]

FileStats(contents) ==
    {AbsentFile} \cup
    {[exists |-> TRUE, mtime |-> t, content |-> c] :
        t \in 1..MaxTime, c \in contents}

\* os.path.exists(path): the empty path never exists
Exists(fs, path) == path # "" /\ fs[path].exists

\* CheckRedo comparing the paths pairwise instead of each with each
CheckRedo_Zip(in_filepaths, out_filepaths, force, fs) ==
    IF in_filepaths = <<>> THEN "IndexError"
    ELSE IF \E i \in 1..Len(in_filepaths) : ~Exists(fs, in_filepaths[i])
    THEN "IOError"
    ELSE LET missing ==
                 \E o \in 1..Len(out_filepaths) :
                     out_filepaths[o] # "" /\ ~Exists(fs, out_filepaths[o])
             newer ==
                 \E i \in 1..Len(in_filepaths) :
                     /\ i <= Len(out_filepaths)
                     /\ in_filepaths[i] # "" /\ out_filepaths[i] # ""
                     /\ fs[in_filepaths[i]].mtime > fs[out_filepaths[i]].mtime
         IN  Cond(force \/ missing \/ newer)

\* lines 493-518.  Each loop sets force and breaks at the first path (or
\* pair of paths) that satisfies its test, so force is set iff one does;
\* the second loop runs only when every non-empty output path exists.
CheckRedo(in_filepaths, out_filepaths, force, fs) ==
    IF in_filepaths = <<>> THEN "IndexError"
    ELSE IF \E i \in 1..Len(in_filepaths) : ~Exists(fs, in_filepaths[i])
    THEN "IOError"
    ELSE LET missing ==
                 \E o \in 1..Len(out_filepaths) :
                     out_filepaths[o] # "" /\ ~Exists(fs, out_filepaths[o])
             newer ==
                 \E i \in 1..Len(in_filepaths), o \in 1..Len(out_filepaths) :
                     /\ in_filepaths[i] # "" /\ out_filepaths[o] # ""
                     /\ fs[in_filepaths[i]].mtime > fs[out_filepaths[o]].mtime
         IN  Cond(force \/ missing \/ newer)

\* The call of check_redo.
CheckRedoCall ==
    /\ pc = "check_redo"
    /\ ret' = CheckRedo(args.in_filepaths, args.out_filepaths, args.force, files)
    /\ pc' = "returned"
    /\ UNCHANGED <<entry, doc, skip_sections, limits, pos, blocks, lines,
                   len_last_line, wc_partial, wc_total, figs, fig_refs, tests,
                   attaches, num_figure_captions, file_size, args, files,
                   trace, outputs>>

\* check_redo called on two lists of paths, in a file system
InitCheckRedo ==
    /\ entry = "check_redo"
    /\ pc = "check_redo"
    /\ args \in [in_filepaths : UNION {[1..n -> InPaths] : n \in 0..MaxPaths},
                  out_filepaths : UNION {[1..n -> OutPaths] : n \in 0..MaxPaths},
                  force : BOOLEAN]
    /\ files \in [(InPaths \cup OutPaths) \ {""} -> FileStats({"x"})]
    /\ ret = "None"
    /\ doc = <<>>
    /\ skip_sections = <<>>
    /\ limits = D_LIMITS
    /\ pos = 1
    /\ blocks = <<>>
    /\ lines = <<>>
    /\ len_last_line = 0
    /\ wc_partial = 0
    /\ wc_total = 0
    /\ figs = <<>>
    /\ fig_refs = <<>>
    /\ tests = <<>>
    /\ attaches = <<>>
    /\ num_figure_captions = 0
    /\ file_size = <<>>
    /\ trace = <<>>
    /\ outputs = <<>>

NextCheckRedo == CheckRedoCall

SpecCheckRedo == InitCheckRedo /\ [][NextCheckRedo]_vars

-----------------------------------------------------------------------------
(* C20: what check_redo decides *)

CheckRedoReturned == entry = "check_redo" /\ pc = "returned"

\* the same file system with other contents in its files
OtherContents ==
    {[p \in DOMAIN files |->
        IF files[p].exists THEN [files[p] EXCEPT !.content = c[p]]
        ELSE files[p]] : c \in [DOMAIN files -> {"x", "y"}]}

\* C20: on a non-empty list of existing inputs check_redo returns True when
\* force is set; without force it returns False when every output exists
\* and every input is older than every output, and True when a non-empty
\* output path does not exist or an input is newer than an output; the
\* files' contents never change the answer.
C20_RedoByExistenceAndTime ==
    LET ins  == args.in_filepaths
        outs == args.out_filepaths
    IN  (/\ CheckRedoReturned
         /\ ins # <<>>
         /\ \A i \in 1..Len(ins) : Exists(files, ins[i])) =>
            /\ args.force => ret = "True"
            /\ (/\ ~args.force
                /\ \A o \in 1..Len(outs) : Exists(files, outs[o])
                /\ \A i \in 1..Len(ins), o \in 1..Len(outs) :
                       files[ins[i]].mtime < files[outs[o]].mtime)
                   => ret = "False"
            /\ (/\ ~args.force
                /\ \/ \E o \in 1..Len(outs) :
                          outs[o] # "" /\ ~Exists(files, outs[o])
                   \/ \E i \in 1..Len(ins), o \in 1..Len(outs) :
                          /\ Exists(files, outs[o])
                          /\ files[ins[i]].mtime > files[outs[o]].mtime)
                   => ret = "True"
            /\ \A fs \in OtherContents :
                   CheckRedo(ins, outs, args.force, fs) = ret

\* two inputs, two outputs that exist, only the second input newer than the
\* first output: the outputs are to be made again
C20_Witness ==
    /\ CheckRedoReturned
    /\ ~args.force
    /\ args.in_filepaths = <<"a", "b">>
    /\ args.out_filepaths = <<"c", "d">>
    /\ \A p \in {"a", "b", "c", "d"} : files[p].exists
    /\ files["a"].mtime = files["c"].mtime
    /\ files["b"].mtime > files["c"].mtime
    /\ files["b"].mtime = files["d"].mtime
    /\ ret = "True"

-----------------------------------------------------------------------------
(* honolulu: the whole run *)

\* the names of the files of a run: the input, this script (__file__), the
\* fixed copy, the style sheet, the two exports
InFile == "in.md"

ScriptFile == "script"

FixedFile == "fix_in.md"

D_CSS_FILEPATH == "default.css"

HtmlFile == "in.html"

PdfFile == "in.pdf"

\* the external tools, by their keys in TOOLS
Tools == {"vcs", "md2html", "html2pdf"}

\* the input and the script were last modified at the latest time; a file
\* written during the run is newer than any file that was there before
SourceTime == MaxTime

Now == MaxTime + 1

SourceStat == [exists |-> TRUE, mtime |-> SourceTime, content |-> "x"]

WrittenStat == [exists |-> TRUE, mtime |-> Now, content |-> "new"]

\* What a started process may do: succeed and print to its stdout, or fail
\* and print to its stderr.
ProcessOutcomes ==
    {[ret_code |-> 0, out |-> TRUE, err |-> FALSE],
     [ret_code |-> 1, out |-> FALSE, err |-> TRUE]}

\* the events of a run, as the trace keeps them
Msg(text) == <<"msg", text>>

Start(tool) == <<"start", tool>>

Write(path) == <<"write", path>>

\* old in s and s.replace(old, new), from the left, without overlaps
RECURSIVE Replace(_, _, _)
Replace(s, old, new) ==
    IF Len(s) < Len(old) THEN s
    ELSE IF SubSeq(s, 1, Len(old)) = old
    THEN new \o Replace(DropPrefix(s, Len(old)), old, new)
    ELSE <<s[1]>> \o Replace(Tail(s), old, new)

\* lines 692-698: the replacements of fix, on the lines of a stream in
\* which every line is ended by a line break
FixLines(stream) ==
    [k \in 1..Len(stream) |->
        LET line   == stream[k]
            dotted == line # <<>> /\ line[Len(line)] = "."
            spaced == IF ~dotted THEN line
                      ELSE IF k < Len(stream) /\ stream[k + 1] = <<>>
                      THEN line \o <<" ", " ", " ">>
                      ELSE line \o <<" ">>
            r1 == Replace(spaced, <<"\\", "\\", "(">>, <<"$", "$", "$">>)
            r2 == Replace(r1, <<"\\", "\\", ")">>, <<"$", "$", "$">>)
            r3 == Replace(r2, <<"\\", "\\", "[">>, <<"$", "$">>)
        IN  Replace(r3, <<"\\", "\\", "]">>, <<"$", "$">>)]

\* gen_report on the verdict lines of honolulu, which are kept as their
\* parts: the report is kept as its parts too, with the result of line 768
Report(attach_list, test_list, use_html) ==
    [use_html |-> use_html, lines |-> attach_list, tests |-> test_list,
     result |-> IF attach_list = <<>> THEN <<>>
                ELSE Result(AllNotNone(test_list))]

\* line 124 and lines 436-443: D_LOG with the name of the tool's executable
\* and the stream
LogFile(tool, source) ==
    CASE tool = "vcs" /\ source = "out" -> ".git.out.log"
      [] tool = "vcs" /\ source = "err" -> ".git.err.log"
      [] tool = "md2html" /\ source = "out" -> ".pandoc.out.log"
      [] tool = "md2html" /\ source = "err" -> ".pandoc.err.log"
      [] tool = "html2pdf" /\ source = "out" -> ".wkhtmltopdf.out.log"
      [] tool = "html2pdf" /\ source = "err" -> ".wkhtmltopdf.err.log"

\* Execute starting the process again after a failure
Execute_Retry(tool, is_valid, outcome) ==
    IF ~is_valid
    THEN [ret_code |-> <<>>, events |-> <<Msg("W: not in $PATH")>>]
    ELSE [ret_code |-> <<outcome.ret_code>>,
          events |->
              <<Start(tool)>>
              \o (IF outcome.ret_code # 0 THEN <<Start(tool)>> ELSE <<>>)
              \o (IF outcome.out THEN <<Write(LogFile(tool, "out"))>> ELSE <<>>)
              \o (IF outcome.err THEN <<Write(LogFile(tool, "err"))>> ELSE <<>>)]

\* lines 388-444: execute in mode 'call' with log=D_LOG.  The return code
\* is <<>> for None; the messages of the higher verbosity levels are not
\* printed.
Execute(tool, is_valid, outcome) ==
    IF ~is_valid
    THEN [ret_code |-> <<>>, events |-> <<Msg("W: not in $PATH")>>]
    ELSE [ret_code |-> <<outcome.ret_code>>,
          events |->
              <<Start(tool)>>
              \o (IF outcome.out THEN <<Write(LogFile(tool, "out"))>> ELSE <<>>)
              \o (IF outcome.err THEN <<Write(LogFile(tool, "err"))>> ELSE <<>>)]

\* the file system when path is asked about: the same answer as before for
\* a path that was asked about, any answer otherwise
Observed(fs, path, stat) ==
    IF path \in DOMAIN fs THEN fs ELSE DictSet(fs, path, stat)

\* the step after the fixed copy, and after the HTML step
AfterFix == IF args.export \cap {"html", "pdf"} # {} THEN "css" ELSE "final"

AfterHtml == IF "pdf" \in args.export THEN "pdf" ELSE "final"

\* lines 832-841: the input is a file, or a directory that holds
\* '<dirname>.md', or it is not located and the run exits with status 1
Locate ==
    /\ pc = "locate"
    /\ \E isfile \in BOOLEAN, isdir \in BOOLEAN, md_isfile \in BOOLEAN :
        /\ ~(isfile /\ isdir)
        /\ md_isfile => isdir
        /\ IF isfile \/ (isdir /\ md_isfile)
           THEN /\ trace' = Append(trace, Msg("Input"))
                /\ files' = DictSet(files, InFile, SourceStat)
                /\ pc' = IF args.backup THEN "backup" ELSE "word_count"
                /\ UNCHANGED ret
           ELSE /\ trace' = Append(trace, Msg("File not found"))
                /\ files' = DictSet(files, InFile, AbsentFile)
                /\ pc' = "exited"
                /\ ret' = "exit(1)"
    /\ UNCHANGED <<entry, doc, skip_sections, limits, pos, blocks, lines,
                   len_last_line, wc_partial, wc_total, figs, fig_refs, tests,
                   attaches, num_figure_captions, file_size, args, outputs>>

\* Backup ending the run when the commit has not succeeded
Backup_FatalOnFailure ==
    /\ pc = "backup"
    /\ \E is_valid \in BOOLEAN, outcome \in ProcessOutcomes :
        LET run == Execute("vcs", is_valid, outcome)
        IN  /\ trace' = trace \o run.events
                \o (IF run.ret_code = <<0>>
                    THEN <<Msg("I: Your VCS has been updated.")>>
                    ELSE <<Msg("W: VCS backup failed")>>)
            /\ pc' = IF run.ret_code = <<0>> THEN "word_count" ELSE "raised"
    /\ UNCHANGED <<entry, doc, skip_sections, limits, pos, blocks, lines,
                   len_last_line, wc_partial, wc_total, figs, fig_refs, tests,
                   attaches, num_figure_captions, file_size, args, ret, files,
                   outputs>>

\* lines 843-852: the backup
Backup ==
    /\ pc = "backup"
    /\ \E is_valid \in BOOLEAN, outcome \in ProcessOutcomes :
        LET run == Execute("vcs", is_valid, outcome)
        IN  trace' = trace \o run.events
                \o (IF run.ret_code = <<0>>
                    THEN <<Msg("I: Your VCS has been updated.")>>
                    ELSE <<Msg("W: VCS backup failed")>>)
    /\ pc' = "word_count"
    /\ UNCHANGED <<entry, doc, skip_sections, limits, pos, blocks, lines,
                   len_last_line, wc_partial, wc_total, figs, fig_refs, tests,
                   attaches, num_figure_captions, file_size, args, ret, files,
                   outputs>>

\* ChecksDone inside the loop over the figures
ChecksDone_Early == pc = "test_figs"

\* line 897: the loop over the figures, the last of the checks, has ended
ChecksDone == pc = "test_figs" /\ pos > Len(figs)

\* lines 911-913 and fix (681-706): the report is generated and, when
\* check_redo says so, the fixed copy is written with the report attached
Fix ==
    /\ ChecksDone
    /\ \E stat \in FileStats({"x"}) :
        LET fs         == Observed(files, FixedFile, stat)
            attachment == Report(attaches, tests, FALSE)
            redo       == CheckRedo(<<InFile>>, <<FixedFile>>, args.force, fs)
        IN  IF redo = "True"
            THEN /\ outputs' = DictSet(outputs, FixedFile,
                        [stream |-> FixLines(doc), attachment |-> <<attachment>>])
                 /\ files' = DictSet(fs, FixedFile, WrittenStat)
                 /\ trace' = trace \o <<Write(FixedFile), Msg("Output")>>
                 /\ pc' = AfterFix
            ELSE IF redo = "False"
            THEN /\ files' = fs
                 /\ pc' = AfterFix
                 /\ UNCHANGED <<outputs, trace>>
            ELSE /\ files' = fs
                 /\ pc' = "raised"
                 /\ UNCHANGED <<outputs, trace>>
    /\ UNCHANGED <<entry, doc, skip_sections, limits, pos, blocks, lines,
                   len_last_line, wc_partial, wc_total, figs, fig_refs, tests,
                   attaches, num_figure_captions, file_size, args, ret>>

\* lines 917-926: css is None, the default style sheet is written when
\* check_redo says so
Css ==
    /\ pc = "css"
    /\ \E stat \in FileStats({"x"}) :
        LET fs   == Observed(Observed(files, ScriptFile, SourceStat),
                             D_CSS_FILEPATH, stat)
            redo == CheckRedo(<<ScriptFile>>, <<D_CSS_FILEPATH>>, args.force, fs)
        IN  IF redo = "True"
            THEN /\ files' = DictSet(fs, D_CSS_FILEPATH, WrittenStat)
                 /\ trace' = trace \o <<Write(D_CSS_FILEPATH),
                                        Msg("W: CSS may have been overwritten."),
                                        Msg("CSS")>>
                 /\ pc' = "html"
            ELSE IF redo = "False"
            THEN /\ files' = fs
                 /\ trace' = Append(trace, Msg("CSS"))
                 /\ pc' = "html"
            ELSE /\ files' = fs
                 /\ pc' = "raised"
                 /\ UNCHANGED trace
    /\ UNCHANGED <<entry, doc, skip_sections, limits, pos, blocks, lines,
                   len_last_line, wc_partial, wc_total, figs, fig_refs, tests,
                   attaches, num_figure_captions, file_size, args, ret,
                   outputs>>

\* lines 928-942: the export to HTML
Html ==
    /\ pc = "html"
    /\ \E stat \in FileStats({"x"}), is_valid \in BOOLEAN,
          outcome \in ProcessOutcomes :
        LET fs      == Observed(files, HtmlFile, stat)
            redo    == CheckRedo(<<InFile, ScriptFile>>, <<HtmlFile>>,
                                 args.force, fs)
            in_pipe == [stream |-> doc,
                        attachment |-> <<Report(attaches, tests, TRUE)>>]
            run     == Execute("md2html", is_valid, outcome)
        IN  IF redo = "True"
            THEN /\ outputs' = DictSet(outputs, "in_pipe", in_pipe)
                 /\ pc' = AfterHtml
                 /\ IF is_valid
                    THEN /\ trace' = trace \o run.events
                                     \o <<Write(HtmlFile), Msg("HTML")>>
                         /\ files' = DictSet(fs, HtmlFile, WrittenStat)
                    ELSE /\ trace' = Append(trace, Msg("W: cannot export HTML"))
                         /\ files' = fs
            ELSE IF redo = "False"
            THEN /\ files' = fs
                 /\ pc' = AfterHtml
                 /\ UNCHANGED <<outputs, trace>>
            ELSE /\ files' = fs
                 /\ pc' = "raised"
                 /\ UNCHANGED <<outputs, trace>>
    /\ UNCHANGED <<entry, doc, skip_sections, limits, pos, blocks, lines,
                   len_last_line, wc_partial, wc_total, figs, fig_refs, tests,
                   attaches, num_figure_captions, file_size, args, ret>>

\* lines 945-957: the export to PDF; the converter writes the PDF file
\* itself, when it succeeds
Pdf ==
    /\ pc = "pdf"
    /\ \E stat \in FileStats({"x"}), is_valid \in BOOLEAN,
          outcome \in ProcessOutcomes :
        LET fs   == Observed(files, PdfFile, stat)
            redo == CheckRedo(<<HtmlFile, ScriptFile, D_CSS_FILEPATH>>,
                              <<PdfFile>>, args.force, fs)
            run  == Execute("html2pdf", is_valid, outcome)
        IN  IF redo = "True"
            THEN /\ pc' = "final"
                 /\ IF is_valid
                    THEN /\ trace' = trace \o run.events \o <<Msg("PDF")>>
                         /\ files' = IF run.ret_code = <<0>>
                                     THEN DictSet(fs, PdfFile, WrittenStat)
                                     ELSE fs
                    ELSE /\ trace' = Append(trace, Msg("W: cannot export PDF"))
                         /\ files' = fs
            ELSE IF redo = "False"
            THEN /\ files' = fs
                 /\ pc' = "final"
                 /\ UNCHANGED trace
            ELSE /\ files' = fs
                 /\ pc' = "raised"
                 /\ UNCHANGED trace
    /\ UNCHANGED <<entry, doc, skip_sections, limits, pos, blocks, lines,
                   len_last_line, wc_partial, wc_total, figs, fig_refs, tests,
                   attaches, num_figure_captions, file_size, args, ret,
                   outputs>>

\* lines 959-960: the final warning, and the return
Finish ==
    /\ pc = "final"
    /\ trace' = IF ~AllNotNone(tests)
                THEN Append(trace, Msg("WARNING! SOME TESTS HAVE FAILED!"))
                ELSE trace
    /\ pc' = "done"
    /\ UNCHANGED <<entry, doc, skip_sections, limits, pos, blocks, lines,
                   len_last_line, wc_partial, wc_total, figs, fig_refs, tests,
                   attaches, num_figure_captions, file_size, args, ret, files,
                   outputs>>

\* Documents of the runs: a section whose lines end with dots and hold
\* maths delimiters; a synopsis; a document on which word_count raises; an
\* inline image.
RunDocs == {
    << <<"#", " ", "T">>, <<"\\", "\\", "(", "a", "\\", "\\", ")", ".">>, <<>>,
       <<"a", " ", "b", ".">> >>,
    << <<"#", " ", "S", "y", "n", "o", "p", "s", "i", "s">>, <<"a", " ", "b">> >>,
    << <<"a", "b">>, <<"-", "-">>, <<"-", "-">> >>,
    << <<"!", "[", "a", "]", "(", "f", ")">> >> }

\* honolulu called: css is None, log is D_LOG
InitRun ==
    /\ entry = "honolulu"
    /\ pc = "locate"
    /\ doc \in RunDocs
    /\ skip_sections = D_SKIP_SECTIONS
    /\ limits \in LimitsPool
    /\ args \in [export : SUBSET {"html", "pdf"}, attach : BOOLEAN,
                 backup : BOOLEAN, force : BOOLEAN]
    /\ pos = 1
    /\ blocks = <<>>
    /\ lines = <<>>
    /\ len_last_line = 0
    /\ wc_partial = 0
    /\ wc_total = 0
    /\ figs = <<>>
    /\ fig_refs = <<>>
    /\ tests = <<>>
    /\ attaches = <<>>
    /\ num_figure_captions = 0
    /\ file_size = <<>>
    /\ ret = "None"
    /\ files = <<>>
    /\ trace = <<>>
    /\ outputs = <<>>

NextRun ==
    \/ Locate
    \/ Backup
    \/ WcLine
    \/ WcReturn
    \/ TestTotal
    \/ TestBlock
    \/ CallFindFigures
    \/ FigLine
    \/ FigReturn
    \/ TestCounts
    \/ TestFig
    \/ Fix
    \/ Css
    \/ Html
    \/ Pdf
    \/ Finish

SpecRun == InitRun /\ [][NextRun]_vars

-----------------------------------------------------------------------------
(* Claims about the runs of honolulu *)

\* the run is over: it has returned, raised an exception or exited
RunEnded == entry = "honolulu" /\ pc \in {"done", "raised", "exited"}

\* what the trace holds
Messaged(text) ==
    \E i \in 1..Len(trace) : trace[i][1] = "msg" /\ trace[i][2] = text

Started(tool) ==
    \E i \in 1..Len(trace) : trace[i][1] = "start" /\ trace[i][2] = tool

Wrote(path) ==
    \E i \in 1..Len(trace) : trace[i][1] = "write" /\ trace[i][2] = path

\* the events this step has added to the trace
Added == SubSeq(trace', Len(trace) + 1, Len(trace'))

Adds(event) ==
    \E i \in 1..Len(Added) : Added[i][1] = event[1] /\ Added[i][2] = event[2]

Warned == Messaged("WARNING! SOME TESTS HAVE FAILED!")

\* the reports that were attached to the fixed copy or piped to the converter
Reports ==
    UNION {{outputs[o].attachment[i] : i \in 1..Len(outputs[o].attachment)} :
        o \in DOMAIN outputs}

\* C11: a report says ERR iff one of its verdicts is False (a None verdict
\* never makes it fail), and a run that has made a report that says ERR has
\* emitted the final warning, and only such a run has.
C11_ReportErrIffWarned ==
    RunEnded =>
        \A rep \in Reports :
            /\ rep.result = <<"E", "R", "R">>
                   <=> \E i \in 1..Len(rep.tests) : rep.tests[i] = "False"
            /\ rep.result = <<"E", "R", "R">> <=> Warned

\* a tool was looked for and not found: the warning that tells so
MissingWarned(tool) ==
    CASE tool = "vcs" -> Messaged("W: not in $PATH")
      [] tool = "md2html" -> Messaged("W: cannot export HTML")
      [] tool = "html2pdf" -> Messaged("W: cannot export PDF")

\* the file a tool is run to make
OutputOf(tool) ==
    CASE tool = "vcs" -> LogFile("vcs", "out")
      [] tool = "md2html" -> HtmlFile
      [] tool = "html2pdf" -> PdfFile

\* C13: in a run that has parsed its document, a tool that was not found
\* was never started, its output was not written, and the run has come to
\* its normal end.
C13_MissingToolNeverAborts ==
    (RunEnded /\ tests # <<>>) =>
        \A tool \in Tools :
            MissingWarned(tool) =>
                /\ ~Started(tool)
                /\ ~Wrote(OutputOf(tool))
                /\ pc = "done"

\* the input was located
Located == InFile \in DOMAIN files /\ files[InFile].exists

\* C14: a run exits with a non-zero status only when the input is not
\* located, and then no process was started and no file written; a run
\* whose input is located ends normally.
C14_ErrorExitOnlyWhenNotLocated ==
    RunEnded =>
        /\ pc = "exited" =>
            /\ ret = "exit(1)"
            /\ ~Located
            /\ \A i \in 1..Len(trace) : trace[i][1] = "msg"
            /\ outputs = <<>>
        /\ Located => pc = "done"

\* C16: with attach false no report is attached, neither to the fixed copy
\* nor to the input of the export.
C16_NoAttachNoReport ==
    (entry = "honolulu" /\ ~args.attach) =>
        \A o \in DOMAIN outputs : outputs[o].attachment = <<>>

\* C15: the VCS is started only by the backup step of a run with backup
\* enabled, when nothing is parsed, no other process started and no file
\* written; whatever the commit does, the backup step only adds to the
\* trace (a warning when the commit has not succeeded) and hands over to
\* word_count with everything else as it was.
C15_BackupFirstAndHarmless ==
    [][/\ Adds(Start("vcs")) =>
            /\ args.backup
            /\ pc = "backup"
            /\ blocks = <<>> /\ lines = <<>> /\ pos = 1 /\ figs = <<>>
            /\ tests = <<>>
            /\ outputs = <<>>
            /\ \A i \in 1..Len(trace) : trace[i][1] = "msg"
       /\ pc = "backup" =>
            /\ pc' = "word_count"
            /\ Adds(Msg("I: Your VCS has been updated."))
                   \/ Adds(Msg("W: VCS backup failed"))
            /\ UNCHANGED <<entry, doc, skip_sections, limits, pos, blocks,
                           lines, len_last_line, wc_partial, wc_total, figs,
                           fig_refs, tests, attaches, num_figure_captions,
                           file_size, args, ret, files, outputs>>]_vars

\* a run whose commit has failed and that has gone on to write the fixed
\* copy and the HTML file
C15_Witness ==
    /\ RunEnded
    /\ pc = "done"
    /\ args.backup
    /\ Started("vcs")
    /\ Wrote(LogFile("vcs", "err"))
    /\ Messaged("W: VCS backup failed")
    /\ Wrote(FixedFile)
    /\ Wrote(HtmlFile)

\* how far a run has got
BackupOver ==
    Messaged("I: Your VCS has been updated.") \/ Messaged("W: VCS backup failed")

HtmlStepOver == HtmlFile \in DOMAIN files /\ pc \in {"pdf", "final", "done", "raised"}

AllVerdictsRecorded == Len(tests) = MatchIndex + Len(figs)

\* C18 as stated: the backup comes before the parsing, no verdict is
\* recorded while the document is still being parsed (word counting and
\* figure extraction), the fixed copy is written only when every verdict is
\* recorded, and the PDF converter is started only after the HTML step.
C18_StepsInOrder ==
    entry = "honolulu" =>
        /\ (args.backup /\ pc \notin {"locate", "backup", "exited"}) => BackupOver
        /\ pc \in {"locate", "backup"} => ~BackupOver /\ blocks = <<>>
        /\ pc \in {"word_count", "find_figures"} => tests = <<>>
        /\ Wrote(FixedFile) => AllVerdictsRecorded
        /\ Started("html2pdf") => HtmlStepOver

\* C18 amended: the backup comes before the parsing; no verdict is recorded
\* before word counting has finished; the verdicts on the word counts are
\* all recorded before figure extraction starts, and those on the figures
\* after it has finished; the fixed copy is written only when every verdict
\* is recorded, and the PDF converter is started only after the HTML step.
C18_ChecksInterleavedWithParsing ==
    entry = "honolulu" =>
        /\ (args.backup /\ pc \notin {"locate", "backup", "exited"}) => BackupOver
        /\ pc \in {"locate", "backup"} => ~BackupOver /\ blocks = <<>>
        /\ pc = "word_count" => tests = <<>>
        /\ pc \in {"test_total", "test_blocks"} => figs = <<>>
        /\ pc = "find_figures" => Len(tests) = 1 + Cardinality(NonEmptyBlocks)
        /\ Wrote(FixedFile) => AllVerdictsRecorded
        /\ Started("html2pdf") => HtmlStepOver

\* a run with a backup, a figure, the fixed copy and both exports
C18_Witness ==
    /\ RunEnded
    /\ pc = "done"
    /\ Started("vcs")
    /\ Len(figs) = 1
    /\ Len(tests) = 5
    /\ Wrote(FixedFile)
    /\ Started("md2html")
    /\ Started("html2pdf")
    /\ Messaged("PDF")

\* the number of times a tool's process was started
Starts(tool) ==
    Cardinality({i \in 1..Len(trace) :
        trace[i][1] = "start" /\ trace[i][2] = tool})

\* C19: in a run each of the three external processes is started at most
\* once, whatever it returns.
C19_EachProcessAtMostOnce ==
    entry = "honolulu" => \A tool \in Tools : Starts(tool) <= 1

\* a run in which the three processes were started and all three failed
C19_Witness ==
    /\ RunEnded
    /\ pc = "done"
    /\ \A tool \in Tools : Starts(tool) = 1
    /\ \A tool \in Tools : Wrote(LogFile(tool, "err"))

-----------------------------------------------------------------------------
(* C17: when word_count takes a line for a Setext underline *)

\* this step of word_count takes the line at pos for a Setext underline: the
\* line is not skipped, and a block is opened or the title is missed
SetextDetected ==
    /\ entry = "word_count"
    /\ pc = "word_count"
    /\ pos <= Len(doc)
    /\ ~IsSkipped(doc[pos])
    /\ pc' = "raised" \/ Len(blocks') > Len(blocks)

\* C17: a line is taken for a Setext underline only if it starts with an
\* underline token and is as long as the line right above it, which is
\* neither a skipped line nor an underline itself and becomes the title.
C17_UnderlineRightBelowTitle ==
    [][SetextDetected =>
        /\ \E k \in 1..Len(D_HDR_TOKENS_NL) :
               StartsWith(doc[pos], D_HDR_TOKENS_NL[k])
        /\ pos > 1
        /\ Len(doc[pos]) = Len(doc[pos - 1])
        /\ ~IsSkipped(doc[pos - 1])
        /\ ~IsUnderline(doc, pos - 1)
        /\ pc' # "raised"
        /\ blocks'[Len(blocks')].title = doc[pos - 1]]_vars

-----------------------------------------------------------------------------
(* C21: word_count never pops the title from an empty accumulator *)

\* the Setext branch of lines 577-581 fires on the line at pos
SetextFires ==
    /\ pc = "word_count"
    /\ pos <= Len(doc)
    /\ ~SkipLine(doc[pos])
    /\ WasTitle(doc[pos], len_last_line)

\* C21: word_count completes without raising on every document: whenever the
\* Setext branch fires, the body accumulator is not empty, so that the pop of
\* the title is defined, also right after an ATX heading has reset the
\* accumulator and right after a Setext underline.
C21_PopAlwaysDefined ==
    entry = "word_count" =>
        /\ pc # "raised"
        /\ SetextFires => lines # <<>>

====
